---- MODULE Spec2Model ----
(***************************************************************************)
(* The restaurant recommender of src/app.py: the loader                    *)
(* (RestaurantRecommender.load_data), the filter                           *)
(* (RestaurantRecommender.recommend), the start of a process with its      *)
(* snapshot file (initialize_system and the check after it) and the query  *)
(* form.                                                                   *)
(*                                                                         *)
(* Strings are sequences of one-character strings, so that lowercasing,    *)
(* joining and matching are computed.  Ratings are counted in tenths       *)
(* (4.2 is 42), the step of the rating slider.                             *)
(***************************************************************************)
EXTENDS Integers, Sequences, FiniteSets, TLC

VARIABLES
    file,       \* the source file at DATA_PATH
    snapshot,   \* the file at MODEL_PATH: NoFile, or the dumped recommender
    pc,         \* "stopped", "running" (the form is shown), "halted" (st.stop())
    df,         \* the table returned by initialize_system (None when it failed)
    reported,   \* the st.error messages of the last start
    parsed,     \* the last start called load_data on the source file
    loaded,     \* what load_data did at the last start: "none", "table", "failed", "raised"
    prefs,      \* the preferences dict in the caller's hands
    result,     \* what the last recommend call of the process did: [called, raised, rows]
    message     \* the message the query form showed last

vars == <<file, snapshot, pc, df, reported, parsed, loaded, prefs, result, message>>

---------------------------------------------------------------------------
\* Bounds of the model.

\* A source file of the filter's specification holds a block of at most MaxBase
\* rows, written over and over until the file has as many rows as the block, as
\* the cut, one more than the cut, or MaxRows.
MaxBase == 2
MaxRows == 12
\* A query names at most MaxTags cuisine tags.
MaxTags == 2

\* head(10)
TopN == 10

---------------------------------------------------------------------------
\* Strings.

UpperCase == <<"A","B","C","D","E","F","G","H","I","J","K","L","M",
               "N","O","P","Q","R","S","T","U","V","W","X","Y","Z">>
LowerCase == <<"a","b","c","d","e","f","g","h","i","j","k","l","m",
               "n","o","p","q","r","s","t","u","v","w","x","y","z">>
Digits == <<"0","1","2","3","4","5","6","7","8","9">>

UpperSet == { UpperCase[i] : i \in 1..Len(UpperCase) }
LowerOf == [c \in UpperSet |-> LowerCase[CHOOSE i \in 1..Len(UpperCase) : UpperCase[i] = c]]

\* str.lower() on one character
LowerChar(c) == IF c \in UpperSet THEN LowerOf[c] ELSE c

\* str.lower()
Lower(s) == [i \in 1..Len(s) |-> LowerChar(s[i])]

\* sep.join(list)
RECURSIVE Join(_, _)
Join(sep, list) ==
    IF list = <<>> THEN <<>>
    ELSE IF Len(list) = 1 THEN list[1]
    ELSE list[1] \o sep \o Join(sep, Tail(list))

\* The cell values of the model.
Thai == <<"T","h","a","i">>
Deli == <<"D","e","l","i">>
ThaiDeli == <<"T","h","a","i",","," ","D","e","l","i">>
Unknown == <<"U","n","k","n","o","w","n">>
NotAvailable == <<"N","/","A">>

\* A missing value of a column (pandas' NaN), which is no string and no number.
NaN == <<"NaN">>
\* Python's None, where a table is expected
None == [none |-> TRUE]

---------------------------------------------------------------------------
\* The source file and pd.read_csv.

\* The kinds of file at DATA_PATH.
\*   "utf8"      a well-formed delimited file in UTF-8
\*   "latin1"    a well-formed file in Latin-1 with bytes invalid under UTF-8
\*   "malformed" a file the parser rejects in either encoding
\*   "missing"   no file

AllColumns == {"Restaurant Name", "Cuisines", "Aggregate rating", "Votes"}

\* The rows a file is written from: the text of each cell.
RowKinds ==
    { [name |-> <<"a">>, cuisines |-> Thai,     rating |-> <<"4",".","2">>, votes |-> 100],
      [name |-> <<"b">>, cuisines |-> ThaiDeli, rating |-> <<"4",".","2">>, votes |-> 50],
      [name |-> <<"c">>, cuisines |-> <<>>,     rating |-> <<"4",".","5">>, votes |-> 100],
      [name |-> <<"d">>, cuisines |-> Deli,     rating |-> NotAvailable,    votes |-> 7],
      [name |-> <<"e">>, cuisines |-> Thai,     rating |-> <<"-","1">>,     votes |-> 50] }

\* n rows: the block, written over and over
Repeat(block, n) == [i \in 1..n |-> block[((i - 1) % Len(block)) + 1]]

Blocks(n) == UNION { [1..k -> RowKinds] : k \in 0..n }

\* The files of the filter's specification: well-formed, all columns.
BigFiles ==
    UNION { { [kind |-> "utf8", columns |-> AllColumns, rows |-> Repeat(b, n)] :
                n \in {Len(b), TopN, TopN + 1, MaxRows} } :
            b \in Blocks(MaxBase) \ {<<>>} }

\* The files of the changing environment: a good file, a Latin-1 file, a file
\* without the optional Votes column, files without a required column, a file
\* with the header line only, a file the parser rejects.
RowA == CHOOSE r \in RowKinds : r.name = <<"a">>
RowD == CHOOSE r \in RowKinds : r.name = <<"d">>
RowE == CHOOSE r \in RowKinds : r.name = <<"e">>

EnvFiles ==
    { [kind |-> "utf8", columns |-> AllColumns, rows |-> <<RowA, RowD>>],
      [kind |-> "latin1", columns |-> AllColumns, rows |-> <<RowE>>],
      [kind |-> "utf8", columns |-> AllColumns \ {"Votes"}, rows |-> <<RowA>>],
      [kind |-> "utf8", columns |-> AllColumns \ {"Cuisines"}, rows |-> <<RowA>>],
      [kind |-> "latin1", columns |-> AllColumns \ {"Aggregate rating"}, rows |-> <<RowD>>],
      [kind |-> "utf8", columns |-> AllColumns, rows |-> <<>>],
      [kind |-> "malformed", columns |-> {}, rows |-> <<>>] }

MissingFile == [kind |-> "missing", columns |-> {}, rows |-> <<>>]

\* A DataFrame: its columns and its rows, each row a record that carries its index
\* label and one field per column (a field whose column is not in columns is
\* never read).
EmptyDataFrame == [columns |-> {}, rows |-> <<>>]

\* df.empty
IsEmpty(d) == d.columns = {} \/ d.rows = <<>>

\* A cell as read_csv reads it: an empty field is a missing value.
ReadCell(text) == IF text = <<>> \/ text = NotAvailable THEN NaN ELSE text

\* pd.read_csv(path, encoding=enc): the exception it raises, or the table
ReadCsv(f, enc) ==
    IF f.kind = "missing" THEN [exc |-> "FileNotFoundError", df |-> EmptyDataFrame]
    ELSE IF f.kind = "latin1" /\ enc = "utf-8"
        THEN [exc |-> "UnicodeDecodeError", df |-> EmptyDataFrame]
    ELSE IF f.kind = "malformed" THEN [exc |-> "ParserError", df |-> EmptyDataFrame]
    ELSE [exc |-> "none",
          df |-> [columns |-> f.columns,
                  rows |-> [i \in 1..Len(f.rows) |->
                      [idx |-> i - 1,
                       name |-> f.rows[i].name,
                       cuisines |-> ReadCell(f.rows[i].cuisines),
                       rating |-> ReadCell(f.rows[i].rating),
                       votes |-> f.rows[i].votes]]]]

---------------------------------------------------------------------------
\* RestaurantRecommender.load_data

IsDigit(c) == \E d \in 1..Len(Digits) : Digits[d] = c
DigitVal(c) == (CHOOSE d \in 1..Len(Digits) : Digits[d] = c) - 1

RECURSIVE DigitsVal(_)
DigitsVal(s) ==
    IF s = <<>> THEN 0 ELSE 10 * DigitsVal(SubSeq(s, 1, Len(s) - 1)) + DigitVal(s[Len(s)])

\* pd.to_numeric(column, errors='coerce') on one cell, in tenths: a sign, digits
\* and at most one decimal are a number, everything else is a missing value.
ToNumeric(cell) ==
    LET neg == cell # NaN /\ cell # <<>> /\ cell[1] = "-"
        body == IF neg THEN Tail(cell) ELSE cell
        dots == { i \in 1..Len(body) : body[i] = "." }
        dot == IF dots = {} THEN Len(body) + 1 ELSE CHOOSE i \in dots : \A j \in dots : i <= j
        whole == SubSeq(body, 1, dot - 1)
        frac == SubSeq(body, dot + 1, Len(body))
        ok == /\ cell # NaN
              /\ whole # <<>>
              /\ \A i \in 1..Len(whole) : IsDigit(whole[i])
              /\ Len(frac) <= 1
              /\ \A i \in 1..Len(frac) : IsDigit(frac[i])
        abs == 10 * DigitsVal(whole) + DigitsVal(frac)
    IN IF ok THEN [nan |-> FALSE, val |-> IF neg THEN 0 - abs ELSE abs]
       ELSE [nan |-> TRUE, val |-> 0]

\* .fillna(0) on one cell of the numeric column
FillNaZero(x) == IF x.nan THEN 0 ELSE x.val

\* .fillna('Unknown').astype(str) on one cell
FillNaUnknown(cell) == IF cell = NaN THEN Unknown ELSE cell

\* A cleaning step without the lowercasing.
CleanCuisinesNoLower(cell) == FillNaUnknown(cell)

\* line 23
CleanCuisines(cell) == Lower(FillNaUnknown(cell))

\* line 24
CleanRating(cell) == FillNaZero(ToNumeric(cell))

\* A handler that catches the decode failure alone.
CatchesDecodeOnly(exc) == exc = "UnicodeDecodeError"

\* except Exception: every exception of the body is caught
Catches(exc) == TRUE

\* load_data(path): what the caller sees. raised: the exception left load_data;
\* error: st.error was called; df: the table returned.
load_data(f) ==
    LET first == ReadCsv(f, "utf-8")
        read == IF first.exc = "UnicodeDecodeError" THEN ReadCsv(f, "latin1") ELSE first
        exc == IF read.exc # "none" THEN read.exc
               ELSE IF "Cuisines" \notin read.df.columns THEN "KeyError"
               ELSE IF "Aggregate rating" \notin read.df.columns THEN "KeyError"
               ELSE "none"
        cleaned == [columns |-> read.df.columns,
                    rows |-> [i \in 1..Len(read.df.rows) |->
                        [read.df.rows[i] EXCEPT !.cuisines = CleanCuisines(@),
                                                !.rating = CleanRating(@)]]]
    IN IF exc = "none" THEN [raised |-> FALSE, error |-> FALSE, df |-> cleaned]
       ELSE IF Catches(exc) THEN [raised |-> FALSE, error |-> TRUE, df |-> EmptyDataFrame]
       ELSE [raised |-> TRUE, error |-> FALSE, df |-> EmptyDataFrame]

---------------------------------------------------------------------------
\* RestaurantRecommender.recommend

\* The preferences are a dict with the keys "cuisines" (a list of tags) and
\* "min_rating" (tenths), each of which may be absent.
Tags == { Thai, <<".">>, <<"\\">> }

TagLists == { l \in UNION { [1..k -> Tags] : k \in 0..MaxTags } :
                \A i, j \in 1..Len(l) : i # j => l[i] # l[j] }

MinRatings == {0, 40, 45}

Preferences ==
    { [cuisines |-> c, min_rating |-> m] : c \in TagLists, m \in MinRatings }
    \cup { [cuisines |-> c] : c \in TagLists }
    \cup { [min_rating |-> m] : m \in MinRatings }
    \cup { <<>> }

HasKey(p, k) == k \in DOMAIN p

\* if preferences.get('cuisines'): the key is there and the list is not empty
CuisinesGiven(p) == HasKey(p, "cuisines") /\ p.cuisines # <<>>

\* if preferences.get('min_rating'): the key is there and the number is not zero
MinRatingGiven(p) == HasKey(p, "min_rating") /\ p.min_rating # 0

\* '|'.join([c.lower() for c in preferences['cuisines']])
Pattern(p) == Join(<<"|">>, [i \in 1..Len(p.cuisines) |-> Lower(p.cuisines[i])])

\* re.compile(pattern), first pass: the pattern as tokens. A backslash makes the
\* character after it (none of them a letter or a digit in the model) an ordinary
\* one and is an error at the end of the pattern; "|" separates alternatives; "."
\* is any character; every other character of the model's tags is itself.
RECURSIVE Tokens(_)
Tokens(pattern) ==
    IF pattern = <<>> THEN <<>>
    ELSE IF pattern[1] = "\\"
    THEN IF Len(pattern) = 1 THEN << [kind |-> "error", ch |-> "\\"] >>
         ELSE << [kind |-> "char", ch |-> pattern[2]] >>
              \o Tokens(SubSeq(pattern, 3, Len(pattern)))
    ELSE << [kind |-> IF pattern[1] = "|" THEN "bar"
                      ELSE IF pattern[1] = "." THEN "any" ELSE "char",
             ch |-> pattern[1]] >> \o Tokens(Tail(pattern))

\* re.compile raises re.error
BadPattern(pattern) ==
    LET toks == Tokens(pattern) IN \E i \in 1..Len(toks) : toks[i].kind = "error"

\* The alternatives of a tokenised expression: its parts between the bars.
RECURSIVE Alternatives(_)
Alternatives(toks) ==
    LET bars == { i \in 1..Len(toks) : toks[i].kind = "bar" }
        bar == CHOOSE i \in bars : \A j \in bars : i <= j
    IN IF bars = {} THEN {toks}
       ELSE {SubSeq(toks, 1, bar - 1)}
            \cup Alternatives(SubSeq(toks, bar + 1, Len(toks)))

\* One alternative matched at offset i of s, ignoring case.
MatchesAt(alt, s, i) ==
    \A j \in 1..Len(alt) :
        alt[j].kind = "any" \/ LowerChar(alt[j].ch) = LowerChar(s[i + j])

\* Series.str.contains(pattern, case=False, na=False) on one cell: a regular
\* expression search; a missing value is no match.
StrContains(cell, pattern) ==
    /\ cell # NaN
    /\ \E alt \in Alternatives(Tokens(pattern)) :
          \E i \in 0..(Len(cell) - Len(alt)) : MatchesAt(alt, cell, i)

\* An order that forgets the second key.
BeforeByRatingOnly(a, b) == a.rating > b.rating

\* a comes before b in sort_values([rating, votes], ascending=[False, False])
Before(a, b) == a.rating > b.rating \/ (a.rating = b.rating /\ a.votes > b.votes)

RECURSIVE InsertSorted(_, _)
InsertSorted(s, x) ==
    IF s = <<>> THEN <<x>>
    ELSE IF Before(x, s[1]) THEN <<x>> \o s
    ELSE <<s[1]>> \o InsertSorted(Tail(s), x)

\* sort_values on the two keys: a stable sort, rows equal on both keys keep the
\* order of the table
RECURSIVE SortValues(_)
SortValues(rows) ==
    IF rows = <<>> THEN <<>>
    ELSE InsertSorted(SortValues(SubSeq(rows, 1, Len(rows) - 1)), rows[Len(rows)])

\* A cut that lets one row too many through.
HeadRowsOneMore(rows, n) == SubSeq(rows, 1, IF Len(rows) < n + 1 THEN Len(rows) ELSE n + 1)

\* .head(n)
HeadRows(rows, n) == SubSeq(rows, 1, IF Len(rows) < n THEN Len(rows) ELSE n)

\* line 35
CuisineStep(rows, p) ==
    LET pattern == Pattern(p)
        Keep(r) == StrContains(r.cuisines, pattern)
    IN SelectSeq(rows, Keep)

\* line 38
RatingStep(rows, p) ==
    LET Keep(r) == r.rating >= p.min_rating IN SelectSeq(rows, Keep)

\* The rows that pass the filters of lines 33-38.
Filtered(table, p) ==
    LET afterCuisines == IF CuisinesGiven(p) THEN CuisineStep(table.rows, p) ELSE table.rows
    IN IF MinRatingGiven(p) THEN RatingStep(afterCuisines, p) ELSE afterCuisines

\* recommend(preferences) on self.df = table: a column that a step names and the
\* table lacks raises KeyError, a pattern that is no regular expression re.error.
recommend(table, p) ==
    IF \/ CuisinesGiven(p) /\ "Cuisines" \notin table.columns
       \/ CuisinesGiven(p) /\ BadPattern(Pattern(p))
       \/ MinRatingGiven(p) /\ "Aggregate rating" \notin table.columns
       \/ {"Aggregate rating", "Votes"} \ table.columns # {}
    THEN [raised |-> TRUE, rows |-> <<>>]
    ELSE [raised |-> FALSE, rows |-> HeadRows(SortValues(Filtered(table, p)), TopN)]

---------------------------------------------------------------------------
\* initialize_system and the check after it

\* No file at MODEL_PATH.
NoFile == [exists |-> FALSE]

\* A start that does not look for the source file.
DataExistsUnchecked(f) == TRUE

\* os.path.exists(DATA_PATH)
DataExists(f) == f.kind # "missing"

\* os.path.exists(MODEL_PATH)
ModelExists(snap) == snap # NoFile

\* joblib.dump(recommender, MODEL_PATH): the file holds the recommender, its df
Dump(table) == [exists |-> TRUE, df |-> table]

\* initialize_system(): the pair it returns (its table; the recommender holds the
\* same table), the file at MODEL_PATH after it, and what it did on the way.
initialize_system(f, snap) ==
    IF ~DataExists(f)
    THEN [df |-> None, snapshot |-> snap, parsed |-> FALSE, loaded |-> "none",
          reported |-> {"Data file not found"}]
    ELSE IF ~ModelExists(snap)
    THEN LET l == load_data(f)
         IN IF l.raised
            THEN [df |-> None, snapshot |-> snap, parsed |-> TRUE, loaded |-> "raised",
                  reported |-> {"System error"}]
            ELSE [df |-> l.df, snapshot |-> Dump(l.df), parsed |-> TRUE,
                  loaded |-> IF l.error THEN "failed" ELSE "table",
                  reported |-> IF l.error THEN {"Data loading error"} ELSE {}]
    ELSE [df |-> snap.df, snapshot |-> snap, parsed |-> FALSE, loaded |-> "none",
          reported |-> {}]

\* if df is None or recommender is None or df.empty
InitFailed(d) == d = None \/ IsEmpty(d)

\* No recommend call yet in this process.
NoResult == [called |-> FALSE, raised |-> FALSE, rows |-> <<>>]

\* A process starts: lines 68-75.
Start ==
    /\ pc = "stopped"
    /\ LET init == initialize_system(file, snapshot)
       IN /\ snapshot' = init.snapshot
          /\ df' = init.df
          /\ parsed' = init.parsed
          /\ loaded' = init.loaded
          /\ reported' = init.reported \cup
                (IF InitFailed(init.df) THEN {"System initialization failed"} ELSE {})
          /\ pc' = IF InitFailed(init.df) THEN "halted" ELSE "running"
    /\ result' = NoResult
    /\ message' = "none"
    /\ UNCHANGED <<file, prefs>>

\* The process exits: the table, the caller's dict and the page are discarded.
Exit ==
    /\ pc \in {"running", "halted"}
    /\ pc' = "stopped"
    /\ df' = None
    /\ reported' = {}
    /\ parsed' = FALSE
    /\ loaded' = "none"
    /\ prefs' = <<>>
    /\ result' = NoResult
    /\ message' = "none"
    /\ UNCHANGED <<file, snapshot>>

---------------------------------------------------------------------------
\* The query form

\* The parts of s between the commas
RECURSIVE Split(_)
Split(s) ==
    LET commas == { i \in 1..Len(s) : s[i] = "," }
        comma == CHOOSE i \in commas : \A j \in commas : i <= j
    IN IF commas = {} THEN <<s>>
       ELSE <<SubSeq(s, 1, comma - 1)>> \o Split(SubSeq(s, comma + 1, Len(s)))

\* str.strip()
RECURSIVE Strip(_)
Strip(s) ==
    IF s # <<>> /\ s[1] = " " THEN Strip(Tail(s))
    ELSE IF s # <<>> /\ s[Len(s)] = " " THEN Strip(SubSeq(s, 1, Len(s) - 1))
    ELSE s

DefaultCuisines ==
    { <<"I","t","a","l","i","a","n">>, <<"I","n","d","i","a","n">>,
      <<"C","h","i","n","e","s","e">>, <<"A","m","e","r","i","c","a","n">> }

\* lines 80-87: the options of the multiselect
all_cuisines(table) ==
    LET Parts(i) == Split(table.rows[i].cuisines)
        found == UNION { { Strip(Parts(i)[k]) : k \in 1..Len(Parts(i)) } :
                           i \in 1..Len(table.rows) } \ {<<>>}
    IN IF "Cuisines" \notin table.columns \/ found = {} THEN DefaultCuisines ELSE found

\* What the multiselect can hold: distinct options, in the order selected.
SelectionsOf(table) ==
    { l \in UNION { [1..k -> all_cuisines(table)] : k \in 0..MaxTags } :
        \A i, j \in 1..Len(l) : i # j => l[i] # l[j] }

\* The form is shown only once the start succeeded.
Selections == IF pc = "running" THEN SelectionsOf(df) ELSE {}

\* A recommend that filters the table it holds.
SelfDfAfterInPlace(table, p) == [table EXCEPT !.rows = Filtered(table, p)]

\* self.df after recommend(p): line 31 copies the table, and the steps after it
\* rebind the local name results.
SelfDfAfter(table, p) == table

\* The outcome of a call as the caller sees it.
Called(r) == [called |-> TRUE, raised |-> r.raised, rows |-> r.rows]

\* A direct call recommender.recommend(p).
RecommendCall(p) ==
    /\ pc = "running"
    /\ prefs' = p
    /\ result' = Called(recommend(df, p))
    /\ df' = SelfDfAfter(df, p)
    /\ UNCHANGED <<file, snapshot, pc, reported, parsed, loaded, message>>

\* The button 'Find Restaurants' with the form's values: lines 96-127.
FindRestaurants(selected_cuisines, min_rating) ==
    /\ pc = "running"
    /\ IF selected_cuisines = <<>>
       THEN /\ message' = "Please select at least one cuisine"
            /\ result' = NoResult
            /\ UNCHANGED <<prefs, df>>
       ELSE LET p == [cuisines |-> selected_cuisines, min_rating |-> min_rating]
                r == recommend(df, p)
            IN /\ prefs' = p
               /\ result' = Called(r)
               /\ df' = SelfDfAfter(df, p)
               /\ message' = IF r.raised THEN "Recommendation error"
                             ELSE IF r.rows = <<>> THEN "No restaurants match your criteria"
                             ELSE "Found restaurants"
    /\ UNCHANGED <<file, snapshot, pc, reported, parsed, loaded>>

---------------------------------------------------------------------------
\* The environment

\* The source file is written anew.
ReplaceFile(f) ==
    /\ file # f
    /\ file' = f
    /\ UNCHANGED <<snapshot, pc, df, reported, parsed, loaded, prefs, result, message>>

\* The source file is removed.
DeleteFile ==
    /\ file # MissingFile
    /\ file' = MissingFile
    /\ UNCHANGED <<snapshot, pc, df, reported, parsed, loaded, prefs, result, message>>

---------------------------------------------------------------------------
\* Specifications

Stopped ==
    /\ snapshot = NoFile
    /\ pc = "stopped"
    /\ df = None
    /\ reported = {}
    /\ parsed = FALSE
    /\ loaded = "none"
    /\ result = NoResult
    /\ message = "none"

\* Processes start and exit while the files change; the form and direct callers
\* query the running process.
Init == file \in EnvFiles \cup {MissingFile} /\ prefs = <<>> /\ Stopped

Next ==
    \/ Start
    \/ Exit
    \/ \E p \in Preferences : RecommendCall(p)
    \/ \E c \in Selections, m \in MinRatings : FindRestaurants(c, m)
    \/ \E f \in EnvFiles : ReplaceFile(f)
    \/ DeleteFile

Spec == Init /\ [][Next]_vars

\* One process over one source file, and a caller with one preferences dict.
InitQuery == file \in BigFiles /\ prefs \in Preferences /\ Stopped

NextQuery ==
    \/ Start
    \/ RecommendCall(prefs)

SpecQuery == InitQuery /\ [][NextQuery]_vars

---------------------------------------------------------------------------
\* Properties

Min(a, b) == IF a < b THEN a ELSE b

\* The string has no uppercase letter.
IsLower(s) == \A i \in 1..Len(s) : s[i] \notin UpperSet

\* The string hay holds the string needle.
Contains(hay, needle) ==
    \E i \in 0..(Len(hay) - Len(needle)) :
        \A j \in 1..Len(needle) : hay[i + j] = needle[j]

\* The last recommend call returned a table.
Returned == result.called /\ ~result.raised

\* The row passes the filter steps the call takes.
Passes(p, r) ==
    /\ CuisinesGiven(p) => StrContains(r.cuisines, Pattern(p))
    /\ MinRatingGiven(p) => r.rating >= p.min_rating

\* The rows of the table that pass them, by position.
Matching(table, p) == { i \in 1..Len(table.rows) : Passes(p, table.rows[i]) }

\* The index labels of the returned rows.
ReturnedLabels == { result.rows[i].idx : i \in 1..Len(result.rows) }

\* C1: a call that returns gives at most 10 rows, and exactly min(10, number of
\* rows of the table that pass the cuisine and rating steps).
C1_BoundedOutput ==
    Returned =>
        /\ Len(result.rows) <= TopN
        /\ Len(result.rows) = Min(TopN, Cardinality(Matching(df, prefs)))

\* C1 witness: more than 10 rows pass the steps and 10 are returned.
C1_Witness ==
    /\ Returned
    /\ Cardinality(Matching(df, prefs)) > TopN
    /\ Len(result.rows) = TopN

\* C2: the returned rows are in descending order of rating, ties in descending
\* order of votes, and no row the cut left out ranks strictly above a returned row.
C2_SortCorrectness ==
    Returned =>
        /\ \A i \in 1..(Len(result.rows) - 1) :
              LET a == result.rows[i]
                  b == result.rows[i + 1]
              IN a.rating > b.rating \/ (a.rating = b.rating /\ a.votes >= b.votes)
        /\ \A i \in Matching(df, prefs) : \A j \in 1..Len(result.rows) :
              LET out == df.rows[i]
                  in == result.rows[j]
              IN out.idx \notin ReturnedLabels =>
                    ~(\/ out.rating > in.rating
                      \/ out.rating = in.rating /\ out.votes > in.votes)

\* C2 witness: a returned pair ties on rating and differs in votes, and the cut
\* left rows out.
C2_Witness ==
    /\ Returned
    /\ Cardinality(Matching(df, prefs)) > TopN
    /\ \E i \in 1..(Len(result.rows) - 1) :
          /\ result.rows[i].rating = result.rows[i + 1].rating
          /\ result.rows[i].votes > result.rows[i + 1].votes

\* The cell holds one of the requested tags as a substring, ignoring case.
HoldsTag(cell, p) ==
    \E k \in 1..Len(p.cuisines) : Contains(Lower(cell), Lower(p.cuisines[k]))

\* C3: with a non-empty cuisines list, every returned row holds one of the
\* requested tags as a substring (ignoring case), and no row that holds one is
\* removed by the cuisine step.
C3_SubstringMatch ==
    (Returned /\ HasKey(prefs, "cuisines") /\ prefs.cuisines # <<>>) =>
        /\ \A i \in 1..Len(result.rows) : HoldsTag(result.rows[i].cuisines, prefs)
        /\ \A i \in 1..Len(df.rows) :
              HoldsTag(df.rows[i].cuisines, prefs) =>
                  \E j \in 1..Len(CuisineStep(df.rows, prefs)) :
                      CuisineStep(df.rows, prefs)[j].idx = df.rows[i].idx

\* C4: whenever the preferences carry the key min_rating, every returned row has
\* rating >= min_rating.
C4_MinRatingWheneverKey ==
    (Returned /\ HasKey(prefs, "min_rating")) =>
        \A i \in 1..Len(result.rows) : result.rows[i].rating >= prefs.min_rating

\* The non-empty tag lists made of tags of l.
Narrowings(l) ==
    { q \in TagLists : q # <<>> /\ \A k \in 1..Len(q) : \E n \in 1..Len(l) : q[k] = l[n] }

\* C5: every returned row is a row of the table; adding a min_rating to the
\* preferences never gives more rows; replacing a non-empty cuisines list by a
\* non-empty selection of its tags never gives more rows.
C5_FilterMonotonicity ==
    Returned =>
        /\ \A i \in 1..Len(result.rows) :
              \E j \in 1..Len(df.rows) : df.rows[j] = result.rows[i]
        /\ ~HasKey(prefs, "min_rating") =>
              \A m \in MinRatings :
                  LET q == [k \in DOMAIN prefs \cup {"min_rating"} |->
                               IF k = "min_rating" THEN m ELSE prefs[k]]
                      r == recommend(df, q)
                  IN ~r.raised => Len(r.rows) <= Len(result.rows)
        /\ (HasKey(prefs, "cuisines") /\ prefs.cuisines # <<>>) =>
              \A l \in Narrowings(prefs.cuisines) :
                  LET r == recommend(df, [prefs EXCEPT !.cuisines = l])
                  IN ~r.raised => Len(r.rows) <= Len(result.rows)

\* The load of the file fails: no file, a file the parser rejects, or a required
\* column absent.
LoadFails(f) ==
    \/ f.kind \in {"missing", "malformed"}
    \/ "Cuisines" \notin f.columns
    \/ "Aggregate rating" \notin f.columns

\* A step that starts a process.
Starting == pc = "stopped" /\ pc' # "stopped"

\* C6: load_data never raises to its caller; a file in Latin-1 loads; every
\* failing load gives the empty table and a reported error.
C6_LoadNeverRaises ==
    [][(Starting /\ parsed') =>
          /\ loaded' # "raised"
          /\ loaded' \in {"table", "failed"}
          /\ LoadFails(file) =>
                /\ loaded' = "failed"
                /\ df' = EmptyDataFrame
                /\ "Data loading error" \in reported'
          /\ ~LoadFails(file) =>
                /\ loaded' = "table"
                /\ Len(df'.rows) = Len(file.rows)
                /\ "Data loading error" \notin reported']_vars

\* C6 witness: a start whose load failed holds the empty table and the error.
C6_Witness ==
    /\ loaded = "failed"
    /\ df = EmptyDataFrame
    /\ "Data loading error" \in reported

\* What the cells of the model's rows are to become.
ExpectedCuisines(text) ==
    CASE text = Thai -> <<"t","h","a","i">>
      [] text = Deli -> <<"d","e","l","i">>
      [] text = ThaiDeli -> <<"t","h","a","i",","," ","d","e","l","i">>
      [] text = <<>> -> <<"u","n","k","n","o","w","n">>

ExpectedRating(text) ==
    CASE text = <<"4",".","2">> -> 42
      [] text = <<"4",".","5">> -> 45
      [] text = <<"-","1">> -> 0 - 10
      [] text = NotAvailable -> 0
      [] text = <<>> -> 0

\* C7: after a successful load every row has a lowercase string for cuisines
\* ("unknown" for a missing one) and a number for rating (0 for a missing or
\* unparseable one, so that no min_rating > 0 lets the row through), and the
\* other columns are as read.
C7_CleanedColumns ==
    loaded = "table" =>
        /\ Len(df.rows) = Len(file.rows)
        /\ \A i \in 1..Len(df.rows) :
              LET src == file.rows[i]
                  row == df.rows[i]
              IN /\ row.cuisines # NaN
                 /\ IsLower(row.cuisines)
                 /\ row.cuisines = ExpectedCuisines(src.cuisines)
                 /\ row.rating \in Int
                 /\ row.rating = ExpectedRating(src.rating)
                 /\ row.votes = src.votes
                 /\ row.name = src.name
        /\ (Returned /\ HasKey(prefs, "min_rating") /\ prefs.min_rating > 0) =>
              \A j \in 1..Len(result.rows) :
                  file.rows[result.rows[j].idx + 1].rating \notin {<<>>, NotAvailable}

\* C7 witness: a loaded file with a missing cuisines cell and an unparseable
\* rating, queried with a positive min_rating.
C7_Witness ==
    /\ loaded = "table"
    /\ \E i \in 1..Len(file.rows) : file.rows[i].cuisines = <<>>
    /\ \E i \in 1..Len(file.rows) : file.rows[i].rating = NotAvailable
    /\ Returned
    /\ HasKey(prefs, "min_rating") /\ prefs.min_rating > 0
    /\ result.rows # <<>>

\* C8: a start whose load failed leaves no snapshot, and every snapshot holds a
\* successfully loaded table.
C8_SnapshotOnlyAfterSuccessfulLoad ==
    /\ loaded = "failed" => ~ModelExists(snapshot)
    /\ ModelExists(snapshot) => snapshot.df # EmptyDataFrame

\* C9 as claimed: at every start with a snapshot present the table is the
\* snapshot's and the source file is not parsed, whatever the source file; the
\* source file is parsed only at a start without a snapshot.
C9_SnapshotWheneverPresent ==
    [][Starting =>
          /\ ModelExists(snapshot) => (df' = snapshot.df /\ ~parsed')
          /\ parsed' => ~ModelExists(snapshot)]_vars

\* C9 as amended: at every start with the source file and a snapshot present
\* the table is the snapshot's and the source file is not parsed, whatever the
\* source file holds; a start without the source file fails and reads neither
\* file; the source file is parsed exactly at the starts that find it and no
\* snapshot.
C9_SnapshotWhenDataExists ==
    [][Starting =>
          /\ (file # MissingFile /\ ModelExists(snapshot)) =>
                (df' = snapshot.df /\ ~parsed' /\ snapshot' = snapshot)
          /\ file = MissingFile =>
                /\ df' = None
                /\ ~parsed'
                /\ snapshot' = snapshot
                /\ "Data file not found" \in reported'
                /\ pc' = "halted"
          /\ parsed' <=> (file # MissingFile /\ ~ModelExists(snapshot))]_vars

\* C9 witness: a process runs on the snapshot's table while the source file
\* holds another one.
C9_Witness ==
    /\ pc = "running"
    /\ ~parsed
    /\ ModelExists(snapshot)
    /\ df = snapshot.df
    /\ file # MissingFile
    /\ load_data(file).df # df

====
